---------------------------- MODULE Spec2Model ----------------------------
(***************************************************************************)
(* The Demo list/create page of django_app (views.home) and its request /  *)
(* response logger (views.log_request_response).                           *)
(*                                                                         *)
(* Text that the code inspects character by character (form fields, META   *)
(* keys, the CONTENT_LENGTH value) is a sequence of one-character strings; *)
(* bodies and contents are sequences of byte values 0..255.  Other values  *)
(* the code only copies are TLA+ strings.                                  *)
(*                                                                         *)
(* Two specifications:                                                     *)
(*   Spec        the application: every request goes through home, and the *)
(*               request objects are those the framework hands to a view;  *)
(*   LoggerSpec  log_request_response called on its own, once, on a        *)
(*               request / response pair drawn in the initial state from   *)
(*               arbitrary objects, as the unit tests build them.          *)
(***************************************************************************)
EXTENDS Integers, Sequences, FiniteSets, TLC

VARIABLES
    demos,      \* the Demo table: a set of rows [id, name, description]
    nextId,     \* the id the store gives to the next created row
    now,        \* time.time(), in whole seconds
    handled,    \* number of requests home has been entered for
    calls,      \* number of completed or failed calls of log_request_response
    logLines,   \* number of lines logger.info has emitted
    lastLine,   \* the most recent line given to logger.info (NoLine before any)
    call        \* what the most recent operation was given and what it did

vars == <<demos, nextId, now, handled, calls, logLines, lastLine, call>>

-----------------------------------------------------------------------------
(* Bounds of the model. *)

MaxRequests == 3    \* requests handled by home in one behaviour
MaxElapse == 1      \* most seconds that pass while a request is handled

-----------------------------------------------------------------------------
(* Text helpers. *)

Whitespace == {" ", "\t"}

RECURSIVE lstrip(_)
lstrip(s) ==
    IF s = <<>> THEN <<>>
    ELSE IF Head(s) \in Whitespace THEN lstrip(Tail(s)) ELSE s

RECURSIVE rstrip(_)
rstrip(s) ==
    IF s = <<>> THEN <<>>
    ELSE IF s[Len(s)] \in Whitespace THEN rstrip(SubSeq(s, 1, Len(s) - 1)) ELSE s

(* str.strip() that leaves trailing whitespace in place *)
strip_LeadingOnly(s) == lstrip(s)

(* str.strip(): leading and trailing whitespace removed. *)
strip(s) == rstrip(lstrip(s))

(* str.startswith(prefix). *)
startswith(s, prefix) ==
    /\ Len(s) >= Len(prefix)
    /\ SubSeq(s, 1, Len(prefix)) = prefix

Digits == <<"0", "1", "2", "3", "4", "5", "6", "7", "8", "9">>

DigitValue(c) == (CHOOSE i \in 1..10 : Digits[i] = c) - 1

IsDigit(c) == \E i \in 1..10 : Digits[i] = c

RECURSIVE DigitsValue(_, _)
DigitsValue(s, acc) ==
    IF s = <<>> THEN acc
    ELSE DigitsValue(Tail(s), 10 * acc + DigitValue(Head(s)))

(* int(text): surrounding whitespace and one sign are accepted, then one   *)
(* or more decimal digits; anything else is a ValueError.                  *)
int(text) ==
    LET t == strip(text)
        signed == t # <<>> /\ Head(t) \in {"+", "-"}
        d == IF signed THEN Tail(t) ELSE t
    IN  IF d # <<>> /\ \A i \in 1..Len(d) : IsDigit(d[i])
        THEN [ok |-> TRUE,
              value |-> IF signed /\ Head(t) = "-"
                        THEN 0 - DigitsValue(d, 0) ELSE DigitsValue(d, 0)]
        ELSE [ok |-> FALSE, value |-> 0]

(* bytes.decode('utf-8') for one- and two-byte sequences: the code points, *)
(* or a failure on a byte that cannot start a character or a lead byte     *)
(* without its continuation byte.  The byte alphabet of the model has no   *)
(* three- or four-byte lead bytes (0xE0..0xF4).                            *)
RECURSIVE decode(_)
decode(bytes) ==
    IF bytes = <<>> THEN [ok |-> TRUE, text |-> <<>>]
    ELSE LET b == Head(bytes) IN
         IF b < 128 THEN
            LET r == decode(Tail(bytes))
            IN  [ok |-> r.ok, text |-> <<b>> \o r.text]
         ELSE IF /\ b >= 194 /\ b <= 223
                 /\ Len(bytes) >= 2
                 /\ bytes[2] >= 128 /\ bytes[2] <= 191 THEN
            LET r == decode(Tail(Tail(bytes)))
            IN  [ok |-> r.ok, text |-> <<(b - 192) * 64 + (bytes[2] - 128)>> \o r.text]
         ELSE [ok |-> FALSE, text |-> <<>>]


-----------------------------------------------------------------------------
(* Request and response objects.                                           *)
(*   request  = [method, POST, body, META]                                 *)
(*     POST   a mapping from submitted field names to their text           *)
(*     body   [kind, bytes]: kind "bytes" (readable), "raises" (reading    *)
(*            raises, as after the stream was consumed) or "absent" (the   *)
(*            object has no body attribute)                                *)
(*     META   [present, map]                                               *)
(*   response = [status_code, items, content, kind, context, location]     *)
(*     items  [present, map]: the header mapping items() iterates          *)
(*     content [present, bytes]                                            *)

None == "None"

EmptyMap == [k \in {} |-> ""]

HTTP_ == <<"H", "T", "T", "P", "_">>
CONTENT_TYPE == <<"C", "O", "N", "T", "E", "N", "T", "_", "T", "Y", "P", "E">>
CONTENT_LENGTH ==
    <<"C", "O", "N", "T", "E", "N", "T", "_", "L", "E", "N", "G", "T", "H">>

Ok(v) == [raised |-> None, value |-> v]

Raise(e) == [raised |-> e, value |-> 0]

(* dict.get(key, default) *)
get(map, key, default) == IF key \in DOMAIN map THEN map[key] ELSE default

-----------------------------------------------------------------------------
(* log_request_response, statement by statement.  Each extraction yields   *)
(* [raised, value]: raised is None, or the exception that leaves the       *)
(* function.                                                               *)

(* line 20: the keys of request.META that are kept. *)
IsHeaderKeyAnyHTTP(k) ==
    startswith(k, <<"H", "T", "T", "P">>) \/ k \in {CONTENT_TYPE, CONTENT_LENGTH}

IsHeaderKey(k) == startswith(k, HTTP_) \/ k \in {CONTENT_TYPE, CONTENT_LENGTH}

(* lines 19-20 *)
request_headers(request) ==
    IF ~request.META.present THEN Raise("AttributeError:META")
    ELSE LET m == request.META.map
         IN  Ok([k \in {h \in DOMAIN m : IsHeaderKey(h)} |-> m[k]])

(* line 23 *)
response_headers(response) ==
    IF response.items.present THEN Ok(response.items.map) ELSE Ok(EmptyMap)

(* lines 26-30, with the Content-Length consulted for every unreadable body *)
request_body_size_AbsentUsesHeader(request) ==
    IF request.body.kind = "bytes" THEN Ok(Len(request.body.bytes))
    ELSE IF CONTENT_LENGTH \in DOMAIN request.META.map
         THEN LET n == int(request.META.map[CONTENT_LENGTH])
              IN  IF n.ok THEN Ok(n.value) ELSE Raise("ValueError:CONTENT_LENGTH")
         ELSE Ok(0)

(* lines 26-30 *)
request_body_size(request) ==
    IF request.body.kind = "absent" THEN Ok(0)                  \* no body attribute
    ELSE IF request.body.kind = "bytes" THEN Ok(Len(request.body.bytes))
    ELSE \* reading request.body raised: the except branch, line 30
         IF CONTENT_LENGTH \in DOMAIN request.META.map
         THEN LET n == int(request.META.map[CONTENT_LENGTH])
              IN  IF n.ok THEN Ok(n.value) ELSE Raise("ValueError:CONTENT_LENGTH")
         ELSE Ok(0)                                             \* int(0)

(* line 33 *)
response_body_size(response) ==
    IF response.content.present THEN Ok(Len(response.content.bytes)) ELSE Ok(0)

(* line 47, with the threshold off by one *)
LogsBodyAbove400(response) ==
    response.status_code > 400 /\ response.content.present

(* line 47: whether the response body text is attached *)
LogsBody(response) ==
    response.status_code >= 400 /\ response.content.present

(* line 48 *)
response_body(response) ==
    LET r == decode(response.content.bytes)
    IN  IF r.ok THEN Ok(r.text) ELSE Raise("UnicodeDecodeError:content")

(* lines 35-44 *)
log_data(request, headers, size, response, rheaders, rsize, duration) ==
    [method |-> request.method,
     url |-> request.url,
     request_headers |-> headers,
     request_body_size |-> size,
     response_status |-> response.status_code,
     response_headers |-> rheaders,
     response_body_size |-> rsize,
     processing_duration_ms |-> duration]

(* lines 14-50: [raised, line].  t is time.time() at line 16.  The line is *)
(* the mapping given to json.dumps; with text and integer values only, the *)
(* JSON text determines it.                                                *)
log_request_response(request, response, start_time, t) ==
    LET duration == (t - start_time) * 1000
        headers == request_headers(request)
        rheaders == response_headers(response)
        size == request_body_size(request)
        rsize == response_body_size(response)
    IN  IF headers.raised # None THEN [raised |-> headers.raised, line |-> None]
        ELSE IF rheaders.raised # None THEN [raised |-> rheaders.raised, line |-> None]
        ELSE IF size.raised # None THEN [raised |-> size.raised, line |-> None]
        ELSE IF rsize.raised # None THEN [raised |-> rsize.raised, line |-> None]
        ELSE LET data == log_data(request, headers.value, size.value, response,
                                  rheaders.value, rsize.value, duration)
             IN  IF LogsBody(response)
                 THEN LET text == response_body(response)
                      IN  IF text.raised # None
                          THEN [raised |-> text.raised, line |-> None]
                          ELSE [raised |-> None,
                                line |-> data @@ ("response_body" :> text.value)]
                 ELSE [raised |-> None, line |-> data]

-----------------------------------------------------------------------------
(* home, statement by statement. *)

ERROR_MESSAGE == "Both name and description are required."

NoResponse ==
    [status_code |-> 0, items |-> [present |-> FALSE, map |-> EmptyMap],
     content |-> [present |-> FALSE, bytes |-> <<>>],
     kind |-> None, context |-> EmptyMap, location |-> ""]

(* order_by('id'): the rows, smallest id first. *)
RECURSIVE order_by_id_asc(_)
order_by_id_asc(rows) ==
    IF rows = {} THEN <<>>
    ELSE LET low == CHOOSE r \in rows : \A q \in rows : r.id <= q.id
         IN  <<low>> \o order_by_id_asc(rows \ {low})

(* Demo.objects.all().order_by('-id'): the rows, greatest id first. *)
RECURSIVE order_by_id_desc(_)
order_by_id_desc(rows) ==
    IF rows = {} THEN <<>>
    ELSE LET top == CHOOSE r \in rows : \A q \in rows : q.id <= r.id
         IN  <<top>> \o order_by_id_desc(rows \ {top})

(* render(request, 'django_app/home.html', context): a 200 response whose  *)
(* content is the rendered page.  The template is not part of the sources, *)
(* so the page bytes are an input of the step.                             *)
render(context, page) ==
    [status_code |-> 200,
     items |-> [present |-> TRUE,
                map |-> [h \in {"Content-Type"} |-> "text/html; charset=utf-8"]],
     content |-> [present |-> TRUE, bytes |-> page],
     kind |-> "render", context |-> context, location |-> ""]

(* redirect('home'): a 302 response to the URL named home, with no content. *)
redirect(to) ==
    [status_code |-> 302,
     items |-> [present |-> TRUE,
                map |-> [h \in {"Content-Type", "Location"} |->
                            IF h = "Location" THEN to
                            ELSE "text/html; charset=utf-8"]],
     content |-> [present |-> TRUE, bytes |-> <<>>],
     kind |-> "redirect", context |-> EmptyMap, location |-> to]

(* lines 58-59 *)
name_of(request) == strip(get(request.POST, "name", <<>>))

description_of(request) == strip(get(request.POST, "description", <<>>))

(* line 61, with "or" for "and" *)
IsValidEither(name, description) == name # <<>> \/ description # <<>>

(* line 61, with the description forgotten *)
IsValidNameOnly(name, description) == name # <<>>

(* line 61: if name and description *)
IsValid(name, description) == name # <<>> /\ description # <<>>

(* lines 55-75 with the log call missing on the validation-error path *)
home_body_NoLogOnError(request) ==
    IF request.method = "POST"
    THEN IF IsValid(name_of(request), description_of(request))
         THEN <<"start_time", "create", "redirect", "log_request_response", "return">>
         ELSE <<"start_time", "render_error", "return">>
    ELSE <<"start_time", "render", "log_request_response", "return">>

(* lines 55-75: the statements home executes for this request, in order. *)
home_body(request) ==
    IF request.method = "POST"
    THEN IF IsValid(name_of(request), description_of(request))
         THEN <<"start_time", "create", "redirect", "log_request_response", "return">>
         ELSE <<"start_time", "render_error", "log_request_response", "return">>
    ELSE <<"start_time", "render", "log_request_response", "return">>

(* One statement of home on the frame st of the running call.  The store   *)
(* work of a request (the insert, or the list query) takes st.work seconds.*)
Step(stmt, st) ==
    LET seen == [st EXCEPT !.trace = Append(@, stmt)] IN
    CASE stmt = "start_time" ->                                     \* line 55
            [seen EXCEPT !.start_time = st.clock, !.locals = @ \cup {"start_time"}]
      [] stmt = "create" ->                                         \* line 62
            [seen EXCEPT
                !.demos = @ \cup {[id |-> st.nextId,
                                   name |-> name_of(st.request),
                                   description |-> description_of(st.request)]},
                !.nextId = @ + 1,
                !.clock = @ + st.work]
      [] stmt = "redirect" ->                                       \* line 63
            [seen EXCEPT !.response = redirect("home"),
                         !.locals = @ \cup {"response"}]
      [] stmt = "render_error" ->                                   \* lines 65-69
            [seen EXCEPT
                !.response = render(("demos" :> order_by_id_desc(st.demos))
                                    @@ ("error" :> ERROR_MESSAGE), st.page),
                !.clock = @ + st.work,
                !.locals = @ \cup {"response"}]
      [] stmt = "render" ->                                         \* lines 71-72
            [seen EXCEPT
                !.response = render(("demos" :> order_by_id_desc(st.demos)), st.page),
                !.clock = @ + st.work,
                !.locals = @ \cup {"response"}]
      [] stmt = "log_request_response" ->                           \* line 74
            IF ~({"start_time", "response"} \subseteq st.locals)
            THEN [seen EXCEPT !.raised = "UnboundLocalError"]
            ELSE LET out == log_request_response(st.request, st.response,
                                                 st.start_time, st.clock)
                 IN  IF out.raised # None
                     THEN [seen EXCEPT !.calls = @ + 1, !.raised = out.raised]
                     ELSE [seen EXCEPT !.calls = @ + 1, !.lines = @ + 1,
                                       !.line = out.line]
      [] stmt = "return" ->                                         \* line 75
            IF "response" \in st.locals
            THEN [seen EXCEPT !.returned = TRUE]
            ELSE [seen EXCEPT !.raised = "UnboundLocalError"]

(* The statements in order; an exception ends the call. *)
RECURSIVE Run(_, _)
Run(stmts, st) ==
    IF stmts = <<>> \/ st.raised # None THEN st
    ELSE Run(Tail(stmts), Step(Head(stmts), st))

-----------------------------------------------------------------------------
(* The inputs the operations are given. *)

HTTP_USER_AGENT == HTTP_ \o <<"U", "S", "E", "R", "_", "A", "G", "E", "N", "T">>
SERVER_NAME == <<"S", "E", "R", "V", "E", "R", "_", "N", "A", "M", "E">>
HTTPS == <<"H", "T", "T", "P", "S">>

URL == "http://testserver/"

(* Submitted forms: texts that are empty, blank, plain, or padded with      *)
(* whitespace, and forms that lack a field.                                *)
Plain == <<"a">>
Padded == <<" ", "b", "\t">>
Blank == <<" ", "\t">>

Forms ==
    {EmptyMap,
     ("name" :> Plain),
     ("description" :> Plain),
     ("name" :> Plain) @@ ("description" :> Padded),
     ("name" :> Padded) @@ ("description" :> Plain),
     ("name" :> Blank) @@ ("description" :> Plain),
     ("name" :> Plain) @@ ("description" :> <<>>)}

(* request.META of a request without a body, and of a form submission. *)
MetaOfGet ==
    (HTTP_USER_AGENT :> "TestAgent") @@ (SERVER_NAME :> "testserver")
    @@ (CONTENT_LENGTH :> <<>>)

MetaOfPost ==
    (HTTP_USER_AGENT :> "TestAgent") @@ (SERVER_NAME :> "testserver")
    @@ (CONTENT_TYPE :> "multipart/form-data") @@ (CONTENT_LENGTH :> <<"1", "2">>)

Readable(bytes) == [kind |-> "bytes", bytes |-> bytes]

(* The requests the framework hands to home.  A request object always has  *)
(* META and a body attribute; reading the body raises only after the form  *)
(* parser consumed the stream of a submission, which it does only for a    *)
(* positive integer Content-Length.                                        *)
HomeRequests ==
    {[method |-> m, url |-> URL, POST |-> EmptyMap, body |-> Readable(<<>>),
      META |-> [present |-> TRUE, map |-> MetaOfGet]] : m \in {"GET", "PUT"}}
    \cup
    {[method |-> "POST", url |-> URL, POST |-> form, body |-> b,
      META |-> [present |-> TRUE, map |-> MetaOfPost]] :
        form \in Forms,
        b \in {Readable(<<110, 61, 97>>), [kind |-> "raises", bytes |-> <<>>]}}

(* The rendered pages. *)
Pages == {<<60, 104, 62>>, <<60, 195, 169, 62>>}

(* request.META of the objects log_request_response is called with         *)
(* directly: with and without a Content-Length, whose text may be an       *)
(* integer, padded, empty or no number at all.                             *)
MockMetaBase ==
    (HTTP_USER_AGENT :> "TestAgent") @@ (CONTENT_TYPE :> "application/json")
    @@ (SERVER_NAME :> "testserver") @@ (HTTPS :> "on")

ContentLengths == {<<"1", "2">>, <<" ", "7", " ">>, <<>>, <<"x">>}

MockMetas ==
    {[present |-> FALSE, map |-> EmptyMap],
     [present |-> TRUE, map |-> EmptyMap],
     [present |-> TRUE, map |-> MockMetaBase]}
    \cup {[present |-> TRUE, map |-> MockMetaBase @@ (CONTENT_LENGTH :> v)] :
            v \in ContentLengths}

MockBodies ==
    {[kind |-> "absent", bytes |-> <<>>], [kind |-> "raises", bytes |-> <<>>],
     Readable(<<>>), Readable(<<97, 98, 99>>)}

MockRequests ==
    {[method |-> "POST", url |-> URL, POST |-> EmptyMap, body |-> b, META |-> m] :
        b \in MockBodies, m \in MockMetas}

MockItems ==
    {[present |-> FALSE, map |-> EmptyMap],
     [present |-> TRUE, map |-> [h \in {"Content-Type"} |-> "text/html"]]}

(* "" , "A", "e-acute" (two bytes), an invalid byte, a truncated character *)
MockContents ==
    {[present |-> FALSE, bytes |-> <<>>]}
    \cup {[present |-> TRUE, bytes |-> c] :
            c \in {<<>>, <<65>>, <<195, 169>>, <<255>>, <<65, 195>>}}

MockStatuses == {200, 302, 399, 400, 500}

MockResponses ==
    {[status_code |-> sc, items |-> i, content |-> c,
      kind |-> "mock", context |-> EmptyMap, location |-> ""] :
        sc \in MockStatuses, i \in MockItems, c \in MockContents}

-----------------------------------------------------------------------------
(* The state machine. *)

NoLine == EmptyMap

NoRequest ==
    [method |-> None, url |-> "", POST |-> EmptyMap, body |-> Readable(<<>>),
     META |-> [present |-> FALSE, map |-> EmptyMap]]

Init ==
    /\ demos = {}
    /\ nextId = 1
    /\ now = 0
    /\ handled = 0
    /\ calls = 0
    /\ logLines = 0
    /\ lastLine = NoLine
    /\ call = [op |-> None, request |-> NoRequest, response |-> NoResponse,
               raised |-> None, returned |-> FALSE, trace |-> <<>>]

(* views.home on one request: the whole call, from line 55 to the return   *)
(* or to the exception that leaves it.                                     *)
home(request, work, page) ==
    /\ handled < MaxRequests
    /\ LET frame == [request |-> request, work |-> work, page |-> page,
                     demos |-> demos, nextId |-> nextId, clock |-> now,
                     start_time |-> 0, locals |-> {}, response |-> NoResponse,
                     calls |-> calls, lines |-> logLines, line |-> lastLine,
                     raised |-> None, returned |-> FALSE, trace |-> <<>>]
       IN  \E end \in {Run(home_body(request), frame)} :
           /\ demos' = end.demos
           /\ nextId' = end.nextId
           /\ now' = end.clock
           /\ handled' = handled + 1
           /\ calls' = end.calls
           /\ logLines' = end.lines
           /\ lastLine' = end.line
           /\ call' = [op |-> "home", request |-> request,
                       response |-> end.response, raised |-> end.raised,
                       returned |-> end.returned, trace |-> end.trace]

(* A request that is not a form submission. *)
Get ==
    \E request \in HomeRequests, work \in 0..MaxElapse, page \in Pages :
        /\ request.method # "POST"
        /\ home(request, work, page)

(* A form submission. *)
Post ==
    \E request \in HomeRequests, work \in 0..MaxElapse, page \in Pages :
        /\ request.method = "POST"
        /\ home(request, work, page)

(* log_request_response called on its own on the pending pair; elapsed     *)
(* seconds have passed since start_time was taken.                         *)
LogCall ==
    \E elapsed \in 0..MaxElapse :
        /\ call.op = "pending"
        /\ LET out == log_request_response(call.request, call.response,
                                           now, now + elapsed)
           IN  /\ now' = now + elapsed
               /\ calls' = calls + 1
               /\ logLines' = IF out.raised = None THEN logLines + 1 ELSE logLines
               /\ lastLine' = IF out.raised = None THEN out.line ELSE lastLine
               /\ call' = [call EXCEPT !.op = "log_request_response",
                                       !.raised = out.raised,
                                       !.returned = out.raised = None]
        /\ UNCHANGED <<demos, nextId, handled>>

Next == Get \/ Post

Spec == Init /\ [][Next]_vars

LoggerNext == LogCall

(* The harness: a fresh process, and one request / response pair to log. *)
LoggerInit ==
    /\ demos = {}
    /\ nextId = 1
    /\ now = 0
    /\ handled = 0
    /\ calls = 0
    /\ logLines = 0
    /\ lastLine = NoLine
    /\ call \in {[op |-> "pending", request |-> request, response |-> response,
                  raised |-> None, returned |-> FALSE, trace |-> <<>>] :
                    request \in MockRequests, response \in MockResponses}

LoggerSpec == LoggerInit /\ [][LoggerNext]_vars

-----------------------------------------------------------------------------
(* What the properties below speak of, stated without the operators of the *)
(* model.                                                                  *)

(* t is s without its leading and trailing whitespace. *)
IsTrimOf(t, s) ==
    \E i, j \in 0..Len(s) :
        /\ i + j <= Len(s)
        /\ t = SubSeq(s, i + 1, Len(s) - j)
        /\ \A k \in 1..i : s[k] \in {" ", "\t"}
        /\ \A k \in (Len(s) - j + 1)..Len(s) : s[k] \in {" ", "\t"}
        /\ t # <<>> => (t[1] \notin {" ", "\t"} /\ t[Len(t)] \notin {" ", "\t"})

(* The text submitted for a field; a missing field counts as empty. *)
Submitted(request, field) ==
    IF field \in DOMAIN request.POST THEN request.POST[field] ELSE <<>>

(* Both fields are non-empty after trimming. *)
BothGiven(request) ==
    /\ ~IsTrimOf(<<>>, Submitted(request, "name"))
    /\ ~IsTrimOf(<<>>, Submitted(request, "description"))

HomeActed == handled' = handled + 1

LoggerActed == call.op = "log_request_response"

Emitted == LoggerActed /\ call.raised = None

(* The position of a statement in the trace of the last call; 0 if absent. *)
At(stmt) ==
    IF \E i \in 1..Len(call.trace) : call.trace[i] = stmt
    THEN CHOOSE i \in 1..Len(call.trace) : call.trace[i] = stmt
    ELSE 0

Times(stmt) == Cardinality({i \in 1..Len(call.trace) : call.trace[i] = stmt})

(* The UTF-8 bytes of a text of code points below 2048. *)
RECURSIVE Utf8Bytes(_)
Utf8Bytes(text) ==
    IF text = <<>> THEN <<>>
    ELSE LET c == Head(text)
         IN  (IF c < 128 THEN <<c>> ELSE <<192 + (c \div 64), 128 + (c % 64)>>)
             \o Utf8Bytes(Tail(text))

(* The decimal numeral of n, 0 <= n <= 99. *)
Numeral(n) ==
    LET ds == <<"0", "1", "2", "3", "4", "5", "6", "7", "8", "9">>
    IN  IF n < 10 THEN <<ds[n + 1]>> ELSE <<ds[(n \div 10) + 1], ds[(n % 10) + 1]>>

DeclaresLength(request) ==
    request.META.present /\ CONTENT_LENGTH \in DOMAIN request.META.map

(* The integer the declared Content-Length denotes; -1 if it denotes none. *)
DeclaredLength(request) ==
    LET text == request.META.map[CONTENT_LENGTH]
    IN  IF \E n \in 0..99 : IsTrimOf(Numeral(n), text)
        THEN CHOOSE n \in 0..99 : IsTrimOf(Numeral(n), text)
        ELSE -1

-----------------------------------------------------------------------------
(* C1: every POST handled by home whose name and description are both      *)
(* non-empty after trimming creates exactly one Demo row, holding the      *)
(* trimmed name and description; the row count grows by exactly 1; and the *)
(* response returned is a 302 redirect to the list page.                   *)
C1_ValidPostCreatesOne ==
    [][(HomeActed /\ call'.request.method = "POST" /\ BothGiven(call'.request))
        => /\ \E row \in demos' :
                /\ row \notin demos
                /\ demos' = demos \cup {row}
                /\ IsTrimOf(row.name, Submitted(call'.request, "name"))
                /\ IsTrimOf(row.description, Submitted(call'.request, "description"))
           /\ Cardinality(demos') = Cardinality(demos) + 1
           /\ call'.returned
           /\ call'.response.status_code = 302
           /\ call'.response.location = "home"]_vars

(* A padded name was submitted, and the row holding its trimmed text is stored. *)
C1_Witness ==
    /\ call.op = "home"
    /\ call.request.method = "POST"
    /\ Submitted(call.request, "name") = <<" ", "b", "\t">>
    /\ call.response.status_code = 302
    /\ \E row \in demos : row.id = nextId - 1 /\ row.name = <<"b">>

(* C2: every POST handled by home in which name or description is empty    *)
(* after trimming (missing and whitespace-only fields included) creates no *)
(* Demo row, leaves the stored rows unchanged, and returns a 200 response  *)
(* carrying the error message "Both name and description are required.".   *)
C2_InvalidPostRejected ==
    [][(HomeActed /\ call'.request.method = "POST" /\ ~BothGiven(call'.request))
        => /\ demos' = demos
           /\ nextId' = nextId
           /\ call'.returned
           /\ call'.response.status_code = 200
           /\ "error" \in DOMAIN call'.response.context
           /\ call'.response.context["error"]
                = "Both name and description are required."]_vars

(* A whitespace-only name was rejected after a row had been stored. *)
C2_Witness ==
    /\ call.op = "home"
    /\ call.request.method = "POST"
    /\ Submitted(call.request, "name") = <<" ", "\t">>
    /\ call.response.status_code = 200
    /\ "error" \in DOMAIN call.response.context
    /\ demos # {}

(* C3: after any sequence of requests handled by home, starting from an    *)
(* empty store, every stored Demo row has a non-empty name and a non-empty *)
(* description; a row is created only by a call whose fields passed the    *)
(* validation.                                                             *)
C3_NoEmptyFieldsStored ==
    /\ \A row \in demos : row.name # <<>> /\ row.description # <<>>
    /\ (call.op = "home" /\ At("create") > 0) => BothGiven(call.request)

(* Two requests were handled; one stored a row and one was turned away. *)
C3_Witness ==
    /\ handled = 2
    /\ Cardinality(demos) = 1
    /\ call.request.method = "POST"

(* C4: for every request handled by home, log_request_response is called   *)
(* exactly once, after the response has been constructed (and after any    *)
(* Demo create) and before home returns it, with the start time taken as   *)
(* the first statement of home; the number of emitted log lines always     *)
(* equals the number of requests handled.                                  *)
C4_LoggedOncePerRequest ==
    /\ [](logLines = handled /\ calls = handled)
    /\ [](call.op = "home" =>
            /\ Times("log_request_response") = 1
            /\ At("start_time") = 1
            /\ \E built \in {"redirect", "render", "render_error"} :
                    /\ At(built) > 0
                    /\ At(built) < At("log_request_response")
            /\ At("create") < At("log_request_response")
            /\ At("return") = At("log_request_response") + 1
            /\ call.returned
            /\ lastLine.response_status = call.response.status_code
            /\ lastLine.method = call.request.method)
    /\ [][HomeActed =>
            lastLine'.processing_duration_ms = (now' - now) * 1000]_vars

(* A second request was logged after its row was created, and it took time. *)
C4_Witness ==
    /\ call.op = "home"
    /\ handled = 2
    /\ logLines = 2
    /\ At("create") = 2
    /\ At("log_request_response") = 4
    /\ lastLine.processing_duration_ms = 1000

(* C5: for a response that exposes its content, the emitted log line has a *)
(* response_body field exactly when the status is 400 or more, and the     *)
(* field is then the text whose UTF-8 encoding is the response content;    *)
(* for a status below 400 the line has no response_body field.             *)
C5_BodyLoggedFrom400 ==
    (Emitted /\ call.response.content.present) =>
        /\ ("response_body" \in DOMAIN lastLine) <=> (call.response.status_code >= 400)
        /\ ("response_body" \in DOMAIN lastLine) =>
                Utf8Bytes(lastLine.response_body) = call.response.content.bytes
        /\ lastLine.response_status = call.response.status_code

(* A 400 response whose two-byte content was logged as one character. *)
C5_Witness ==
    /\ Emitted
    /\ call.response.status_code = 400
    /\ call.response.content.bytes = <<195, 169>>
    /\ "response_body" \in DOMAIN lastLine
    /\ lastLine.response_body = <<233>>

(* C6: log_request_response never raises: for a request that has its META, *)
(* whatever optional field of the request or response cannot be read,      *)
(* whatever the response content and whatever the Content-Length text, the *)
(* call ends normally and exactly one log line has been emitted.           *)
C6_LoggerNeverRaises ==
    (LoggerActed /\ call.request.META.present) =>
        (call.raised = None /\ call.returned /\ logLines = 1)

(* C7: for a request that has its META, when the response has no items,    *)
(* the logged response headers are the empty mapping; when it has no       *)
(* content, the logged response body size is 0 and no response body text   *)
(* is logged, whatever the status; and in both cases the call raises       *)
(* nothing and the log line is emitted.                                    *)
C7_MissingResponseAttributes ==
    call.request.META.present =>
    /\ (LoggerActed /\ ~call.response.items.present) =>
            /\ call.raised = None
            /\ logLines = 1
            /\ DOMAIN lastLine.response_headers = {}
    /\ (LoggerActed /\ ~call.response.content.present) =>
            /\ call.raised = None
            /\ logLines = 1
            /\ lastLine.response_body_size = 0
            /\ "response_body" \notin DOMAIN lastLine

(* C8: for a request that has its META and a response below 400, when      *)
(* reading the request body raises, the logged request_body_size is the    *)
(* integer value of the declared CONTENT_LENGTH, or 0 when none is         *)
(* declared, and the log line is still emitted.                            *)
C8_BodyRaisesFallsBackToHeader ==
    (/\ LoggerActed
     /\ call.request.META.present
     /\ call.response.status_code < 400
     /\ call.request.body.kind = "raises") =>
        /\ call.raised = None
        /\ logLines = 1
        /\ lastLine.request_body_size =
                IF DeclaresLength(call.request)
                THEN DeclaredLength(call.request) ELSE 0

(* A META key denotes a header: it starts with HTTP_, or it is             *)
(* CONTENT_TYPE or CONTENT_LENGTH.                                         *)
DenotesHeader(k) ==
    \/ /\ Len(k) >= 5
       /\ k[1] = "H" /\ k[2] = "T" /\ k[3] = "T" /\ k[4] = "P" /\ k[5] = "_"
    \/ k = CONTENT_TYPE
    \/ k = CONTENT_LENGTH

(* C9: the logged request headers are exactly the entries of request.META  *)
(* whose key denotes a header, each with its value unmodified; every other *)
(* key of META (SERVER_NAME, HTTPS, ...) is absent from the log line.      *)
C9_RequestHeadersFiltered ==
    Emitted =>
        LET meta == call.request.META.map
            logged == lastLine.request_headers
        IN  /\ DOMAIN logged = {k \in DOMAIN meta : DenotesHeader(k)}
            /\ \A k \in DOMAIN logged : logged[k] = meta[k]
            /\ SERVER_NAME \notin DOMAIN logged
            /\ HTTPS \notin DOMAIN logged

(* META held headers and environment keys; only the headers were logged. *)
C9_Witness ==
    /\ Emitted
    /\ {SERVER_NAME, HTTPS, HTTP_USER_AGENT, CONTENT_LENGTH}
            \subseteq DOMAIN call.request.META.map
    /\ DOMAIN lastLine.request_headers
            = {HTTP_USER_AGENT, CONTENT_TYPE, CONTENT_LENGTH}
    /\ lastLine.request_headers[HTTP_USER_AGENT] = "TestAgent"

(* C10, as claimed: the logged request body size is the byte length of the *)
(* body when it is readable, else the parsed Content-Length when one is    *)
(* declared, else zero; a request whose body is absent or raises on access *)
(* and which declares a Content-Length is logged with that Content-Length. *)
C10_AsClaimed ==
    Emitted =>
        IF call.request.body.kind = "bytes"
        THEN lastLine.request_body_size = Len(call.request.body.bytes)
        ELSE IF ~DeclaresLength(call.request)
        THEN lastLine.request_body_size = 0
        ELSE DeclaredLength(call.request) >= 0 =>
                lastLine.request_body_size = DeclaredLength(call.request)

(* C10, amended: in every emitted log line the request body size is the    *)
(* byte length of the body when it is readable; when reading the body      *)
(* raises, the parsed Content-Length when one is declared and zero when    *)
(* none is; and zero when the request has no body attribute at all,        *)
(* whether or not it declares a Content-Length.                            *)
C10_BodySizePreference ==
    Emitted =>
        lastLine.request_body_size =
            CASE call.request.body.kind = "bytes" -> Len(call.request.body.bytes)
              [] call.request.body.kind = "absent" -> 0
              [] call.request.body.kind = "raises" ->
                    IF DeclaresLength(call.request)
                    THEN DeclaredLength(call.request) ELSE 0

(* A request without a body attribute that declared 12 bytes was logged with 0. *)
C10_Witness ==
    /\ Emitted
    /\ call.request.body.kind = "absent"
    /\ DeclaresLength(call.request)
    /\ DeclaredLength(call.request) = 12
    /\ lastLine.request_body_size = 0

(* C11: a GET handled by home leaves the stored Demo rows unchanged and     *)
(* returns a 200 response whose context has no error entry and whose       *)
(* demos sequence holds every stored row exactly once, ordered by id       *)
(* descending; the row created last comes first in that sequence.          *)
C11_GetListsNewestFirst ==
    /\ [][(HomeActed /\ call'.request.method = "GET") =>
            /\ demos' = demos
            /\ nextId' = nextId
            /\ call'.returned
            /\ call'.response.status_code = 200
            /\ "error" \notin DOMAIN call'.response.context
            /\ "demos" \in DOMAIN call'.response.context
            /\ LET listed == call'.response.context["demos"]
               IN  /\ Len(listed) = Cardinality(demos)
                   /\ {listed[i] : i \in 1..Len(listed)} = demos
                   /\ \A i, j \in 1..Len(listed) :
                        i < j => listed[i].id > listed[j].id]_vars
    /\ []((call.op = "home" /\ call.request.method = "GET" /\ demos # {}) =>
            /\ call.response.context["demos"][1].id = nextId - 1
            /\ \A row \in demos : row.id <= call.response.context["demos"][1].id)

(* Two rows were created and then listed, the second one first. *)
C11_Witness ==
    /\ call.op = "home"
    /\ call.request.method = "GET"
    /\ Cardinality(demos) = 2
    /\ Len(call.response.context["demos"]) = 2
    /\ call.response.context["demos"][1].id = 2
    /\ call.response.context["demos"][2].id = 1
    /\ call.response.context["demos"][1] \in demos

=============================================================================
